---- MODULE Spec2Model ----
(***************************************************************************)
(* WorldWeatherPy: HistoricalLocationWeather (month-wise retrieval and     *)
(* flattening of provider day records) and DetermineListOfAttributes.      *)
(*                                                                         *)
(* Representation.                                                         *)
(*   - a date string 'YYYY-mm-dd' is the tuple <<y, m, d>> of its fields;  *)
(*   - a Timestamp is <<y, m, d, h>>;                                      *)
(*   - a JSON object is a TLA+ record whose DOMAIN is its set of keys;     *)
(*   - every cell value is a tuple of integers: a number n is <<n>>, the   *)
(*     provider's time string "900" is its digits <<9, 0, 0>>, and the     *)
(*     missing value (NaN / JSON null) is NaN;                             *)
(*   - a DataFrame is [cols |-> sequence of column names,                  *)
(*                     rows |-> sequence of rows, each a sequence of cells *)
(*                              positionally matching cols].               *)
(***************************************************************************)
EXTENDS Integers, Sequences, FiniteSets, TLC

VARIABLES
  args,             \* the constructor's arguments
  pc,               \* position of the caller: new / raised / ready / loop / returned / failed
  self,             \* the constructed object's fields
  list_month_begin, \* _retrieve_this_city: sub-interval starts
  list_month_end,   \* _retrieve_this_city: sub-interval ends
  m,                \* _retrieve_this_city: number of loop iterations completed
  historical_data,  \* _retrieve_this_city: accumulated frame
  fetches,          \* the requests issued to the provider, in order
  answers,          \* the provider's answers to them, in order
  result,           \* what retrieve_hist_data returned
  csv_file,         \* the frame written by to_csv
  error,            \* the exception that left the call
  dataset,          \* _extract_data: its argument
  monthly_data,     \* _extract_data: its outcome
  attr              \* DetermineListOfAttributes: arguments, response, outcome

vars == <<args, pc, self, list_month_begin, list_month_end, m, historical_data,
          fetches, answers, result, csv_file, error, dataset, monthly_data, attr>>

-----------------------------------------------------------------------------
(* Bounds of the model *)

\* number of consecutive calendar months, from FirstMonth, the input dates of
\* the partition specification are drawn from
NumMonths == 5

\* largest number of hourly sub-records of a generated day record
MaxHours == 2

\* largest number of day records of a generated provider response
MaxDays == 2

FirstMonth == <<2019, 11>>

None == "None"
NoFrame == [cols |-> <<>>, rows |-> <<>>]

-----------------------------------------------------------------------------
(* Calendar arithmetic of datetime / pandas *)

Max(a, b) == IF a >= b THEN a ELSE b

IsLeap(y) == (y % 4 = 0 /\ y % 100 # 0) \/ y % 400 = 0

DaysInMonth(y, mo) ==
  IF mo = 2 THEN (IF IsLeap(y) THEN 29 ELSE 28)
  ELSE IF mo \in {4, 6, 9, 11} THEN 30 ELSE 31

\* the order of Timestamps
TsKey(ts) == ((ts[1] * 100 + ts[2]) * 100 + ts[3]) * 100 + ts[4]
TsLess(a, b) == TsKey(a) < TsKey(b)
TsLeq(a, b) == TsKey(a) <= TsKey(b)

\* the midnight that follows the day of a midnight Timestamp
NextDay(ts) ==
  IF ts[3] < DaysInMonth(ts[1], ts[2]) THEN <<ts[1], ts[2], ts[3] + 1, 0>>
  ELSE IF ts[2] < 12 THEN <<ts[1], ts[2] + 1, 1, 0>>
  ELSE <<ts[1] + 1, 1, 1, 0>>

\* datetime.strptime(s, '%Y-%m-%d'): the fields must name a calendar day
ValidDateString(s) ==
  /\ s[2] \in 1..12
  /\ s[3] >= 1
  /\ s[3] <= DaysInMonth(s[1], s[2])

\* datetime.strptime(s, '%Y-%m-%d') and pd.to_datetime(s): midnight of the day
Strptime(s) == <<s[1], s[2], s[3], 0>>

\* str(timestamp)[:10]: the 'YYYY-mm-dd' prefix of 'YYYY-mm-dd HH:MM:SS'
Str10(ts) == <<ts[1], ts[2], ts[3]>>

\* MonthBegin.rollforward and MonthBegin.__add__
MSRollForward(ts) ==
  IF ts[3] = 1 THEN <<ts[1], ts[2], 1, 0>>
  ELSE IF ts[2] < 12 THEN <<ts[1], ts[2] + 1, 1, 0>>
  ELSE <<ts[1] + 1, 1, 1, 0>>

MSNext(ts) ==
  IF ts[2] < 12 THEN <<ts[1], ts[2] + 1, 1, 0>> ELSE <<ts[1] + 1, 1, 1, 0>>

\* MonthEnd.rollforward and MonthEnd.__add__
MRollForward(ts) == <<ts[1], ts[2], DaysInMonth(ts[1], ts[2]), 0>>

\* a MonthEnd step that adds one month and keeps the day of the month
MNextKeepsDay(ts) ==
  IF ts[2] < 12
  THEN <<ts[1], ts[2] + 1,
         IF ts[3] < DaysInMonth(ts[1], ts[2] + 1) THEN ts[3]
         ELSE DaysInMonth(ts[1], ts[2] + 1), 0>>
  ELSE <<ts[1] + 1, 1, ts[3], 0>>

MNext(ts) ==
  IF ts[2] < 12 THEN <<ts[1], ts[2] + 1, DaysInMonth(ts[1], ts[2] + 1), 0>>
  ELSE <<ts[1] + 1, 1, 31, 0>>

\* pandas generate_range: from cur, one offset at a time, while cur <= end
RECURSIVE GenerateMS(_, _)
GenerateMS(cur, end) ==
  IF TsLeq(cur, end) THEN <<cur>> \o GenerateMS(MSNext(cur), end) ELSE <<>>

RECURSIVE GenerateM(_, _)
GenerateM(cur, end) ==
  IF TsLeq(cur, end) THEN <<cur>> \o GenerateM(MNext(cur), end) ELSE <<>>

\* closed = 'right': the first element is dropped when it is the start
ClosedRight(index, start) ==
  IF Len(index) > 0 /\ index[1] = start THEN Tail(index) ELSE index

\* a closed = 'left' that keeps the end
ClosedLeftKeepsEnd(index, end) == index

\* closed = 'left': the last element is dropped when it is the end
ClosedLeft(index, end) ==
  IF Len(index) > 0 /\ index[Len(index)] = end
  THEN SubSeq(index, 1, Len(index) - 1) ELSE index

\* pd.date_range(start, end, freq = 'MS', closed = 'right')
DateRangeMS(start, end) == ClosedRight(GenerateMS(MSRollForward(start), end), start)

\* pd.date_range(start, end, freq = 'M', closed = 'left')
DateRangeM(start, end) == ClosedLeft(GenerateM(MRollForward(start), end), end)

\* lines 133-134: the start prefixed to the month starts
ListMonthBegin(start_date, end_date) ==
  <<Strptime(start_date)>> \o DateRangeMS(Strptime(start_date), Strptime(end_date))

\* lines 136-137: the month ends suffixed by the end
ListMonthEnd(start_dt, end_dt, end_date) ==
  DateRangeM(start_dt, end_dt) \o <<Strptime(end_date)>>

-----------------------------------------------------------------------------
(* pandas DataFrame operations used by the program *)

NaN == <<-1>>

\* the key order of the provider's JSON objects (dict insertion order)
ProviderKeyOrder ==
  <<"date", "astronomy", "maxtempC", "mintempC", "totalSnow_cm", "sunHour", "uvIndex",
    "hourly",
    "moon_illumination", "moon_phase", "moonrise", "moonset", "sunrise", "sunset",
    "time", "tempC", "windspeedKmph", "winddirDegree", "precipMM", "humidity",
    "visibility", "pressure", "cloudcover", "HeatIndexC", "DewPointC", "WindChillC",
    "WindGustKmph", "FeelsLikeC">>

HasCol(df, name) == \E j \in DOMAIN df.cols : df.cols[j] = name

\* the position of the first column called name
ColPos(df, name) ==
  CHOOSE j \in DOMAIN df.cols :
    /\ df.cols[j] = name
    /\ \A i \in 1..(j - 1) : df.cols[i] # name

\* df[name] as a sequence of cells (name a column of df)
Col(df, name) == [i \in DOMAIN df.rows |-> df.rows[i][ColPos(df, name)]]

\* the keys of the dicts of a list in the order pandas meets them: the keys
\* of the first dict in its own order, then those a later dict adds
RECURSIVE KeysByFirstAppearance(_, _, _)
KeysByFirstAppearance(list, i, seen) ==
  IF i > Len(list) THEN seen
  ELSE KeysByFirstAppearance(
         list, i + 1,
         seen \o SelectSeq(ProviderKeyOrder,
                           LAMBDA k : /\ k \in DOMAIN list[i]
                                      /\ \A j \in DOMAIN seen : seen[j] # k))

\* pd.DataFrame(list of dicts): one row per dict, one column per key that
\* occurs, in order of first appearance, a cell missing where the dict lacks
\* the key
DataFrameFromDicts(list) ==
  LET cols == KeysByFirstAppearance(list, 1, <<>>)
  IN [cols |-> cols,
      rows |-> [i \in DOMAIN list |->
                 [j \in DOMAIN cols |->
                   IF cols[j] \in DOMAIN list[i] THEN list[i][cols[j]] ELSE NaN]]]

\* pd.DataFrame(dict of scalars, index = [0]): one row, the keys in keys order
DataFrameFromScalars(d, keys) ==
  [cols |-> keys, rows |-> << [j \in DOMAIN keys |-> d[keys[j]]] >>]

\* an axis-1 concat that joins on the rows both frames have
ConcatAxis1Inner(a, b) ==
  LET n == IF Len(a.rows) <= Len(b.rows) THEN Len(a.rows) ELSE Len(b.rows)
  IN [cols |-> a.cols \o b.cols,
      rows |-> [i \in 1..n |-> a.rows[i] \o b.rows[i]]]

\* pd.concat([a, b], axis = 1) of frames indexed 0..n-1: columns side by side,
\* the shorter frame's rows missing
ConcatAxis1(a, b) ==
  LET n == Max(Len(a.rows), Len(b.rows))
      NaNRow(df) == [j \in DOMAIN df.cols |-> NaN]
      RowOf(df, i) == IF i <= Len(df.rows) THEN df.rows[i] ELSE NaNRow(df)
  IN [cols |-> a.cols \o b.cols,
      rows |-> [i \in 1..n |-> RowOf(a, i) \o RowOf(b, i)]]

\* df.fillna(method = 'ffill'): per column, a missing cell takes the value of
\* the nearest row above that has one
Ffill(df) ==
  LET filled[i \in DOMAIN df.rows] ==
        [j \in DOMAIN df.cols |->
          IF df.rows[i][j] # NaN \/ i = 1 THEN df.rows[i][j] ELSE filled[i - 1][j]]
  IN [cols |-> df.cols, rows |-> [i \in DOMAIN df.rows |-> filled[i]]]

\* df[name] = values: replaces the column called name, appends it when new
SetCol(df, name, values) ==
  IF HasCol(df, name)
  THEN [cols |-> df.cols,
        rows |-> [i \in DOMAIN df.rows |->
                   [j \in DOMAIN df.cols |->
                     IF df.cols[j] = name THEN values[i] ELSE df.rows[i][j]]]]
  ELSE [cols |-> Append(df.cols, name),
        rows |-> [i \in DOMAIN df.rows |-> Append(df.rows[i], values[i])]]

\* the positions of df's columns that df[names] selects: for each name in
\* turn, every column that carries it
RECURSIVE SelectPositions(_, _)
SelectPositions(df, names) ==
  IF names = <<>> THEN <<>>
  ELSE SelectSeq([j \in DOMAIN df.cols |-> j], LAMBDA j : df.cols[j] = Head(names))
       \o SelectPositions(df, Tail(names))

TakeCols(df, pos) ==
  [cols |-> [k \in DOMAIN pos |-> df.cols[pos[k]]],
   rows |-> [i \in DOMAIN df.rows |-> [k \in DOMAIN pos |-> df.rows[i][pos[k]]]]]

\* df[names], every name a column of df
SelectCols(df, names) == TakeCols(df, SelectPositions(df, names))

\* df.loc[:, ~df.columns.duplicated()]: of equally named columns the first stays
DropDuplicatedCols(df) ==
  TakeCols(df, SelectSeq([j \in DOMAIN df.cols |-> j],
                         LAMBDA j : \A i \in 1..(j - 1) : df.cols[i] # df.cols[j]))

\* pd.concat([a, b]) of frames with unique column names: b's rows under a's,
\* the columns of either, a cell missing where its frame lacks the column
ConcatAxis0(a, b) ==
  LET cols == a.cols \o SelectSeq(b.cols, LAMBDA c : ~HasCol(a, c))
      Widen(df, row) ==
        [j \in DOMAIN cols |->
          IF HasCol(df, cols[j]) THEN row[ColPos(df, cols[j])] ELSE NaN]
  IN [cols |-> cols,
      rows |-> [i \in DOMAIN a.rows |-> Widen(a, a.rows[i])]
               \o [i \in DOMAIN b.rows |-> Widen(b, b.rows[i])]]

-----------------------------------------------------------------------------
(* HistoricalLocationWeather._extract_data *)

required_keys == <<"date", "maxtempC", "mintempC", "totalSnow_cm", "sunHour", "uvIndex">>

columns_required ==
  <<"date_time", "maxtempC", "mintempC", "totalSnow_cm", "sunHour", "uvIndex",
    "moon_illumination", "moonrise", "moonset", "sunrise", "sunset",
    "DewPointC", "FeelsLikeC", "HeatIndexC", "WindChillC", "WindGustKmph",
    "cloudcover", "humidity", "precipMM", "pressure", "tempC", "visibility",
    "winddirDegree", "windspeedKmph">>

Raise(exc) == [status |-> exc, df |-> NoFrame]
Return(df) == [status |-> "ok", df |-> df]

\* x.zfill(4) of a string of digits
Zfill4(x) ==
  IF Len(x) >= 4 THEN x
  ELSE [i \in 1..4 |-> IF i <= 4 - Len(x) THEN 0 ELSE x[i - (4 - Len(x))]]

\* x[:2]
Str2(x) == SubSeq(x, 1, 2)

\* pd.to_datetime(date + ' ' + hh): the day's Timestamp at hour hh
ToDatetime(date, hh) == <<date[1], date[2], date[3], hh[1] * 10 + hh[2]>>

\* lines 95: the required keys the day record has
SubsetKeys(d) == SelectSeq(required_keys, LAMBDA k : k \in DOMAIN d)

\* lines 96-99: the day's combined frame, forward-filled
CombinedFrame(d) ==
  LET astronomy_data == DataFrameFromDicts(d.astronomy)
      hourly_data == DataFrameFromDicts(d.hourly)
      weather_data == DataFrameFromScalars(d, SubsetKeys(d))
  IN Ffill(ConcatAxis1(ConcatAxis1(weather_data, astronomy_data), hourly_data))

\* lines 101-112 on the combined frame of one day
FinishDay(data) ==
  IF ~HasCol(data, "time") THEN Raise("KeyError")
  ELSE IF \E i \in DOMAIN data.rows : Col(data, "time")[i] = NaN
       THEN Raise("AttributeError")
  ELSE
    LET timed == SetCol(data, "time",
                        [i \in DOMAIN data.rows |-> Str2(Zfill4(Col(data, "time")[i]))])
    IN IF ~HasCol(timed, "date") THEN Raise("KeyError")
       ELSE IF \E i \in DOMAIN timed.rows :
                 Col(timed, "time")[i][1] * 10 + Col(timed, "time")[i][2] > 23
            THEN Raise("ValueError")
       ELSE
         LET stamped ==
               SetCol(timed, "date_time",
                      [i \in DOMAIN timed.rows |->
                        ToDatetime(Col(timed, "date")[i], Col(timed, "time")[i])])
         IN IF \E k \in DOMAIN columns_required : ~HasCol(stamped, columns_required[k])
            THEN Raise("KeyError")
            ELSE Return(DropDuplicatedCols(SelectCols(stamped, columns_required)))

\* lines 90-112: one iteration of the loop over the day records
ExtractDay(d) ==
  IF "astronomy" \notin DOMAIN d THEN Raise("KeyError")
  ELSE IF "hourly" \notin DOMAIN d THEN Raise("KeyError")
  ELSE FinishDay(CombinedFrame(d))

\* a loop that passes over the day records it cannot flatten
RECURSIVE ExtractLoopSkipsBadDays(_, _, _)
ExtractLoopSkipsBadDays(days, i, acc) ==
  IF i > Len(days) THEN Return(acc)
  ELSE LET day == ExtractDay(days[i])
       IN IF day.status # "ok" THEN ExtractLoopSkipsBadDays(days, i + 1, acc)
          ELSE ExtractLoopSkipsBadDays(days, i + 1, ConcatAxis0(acc, day.df))

\* a loop that forward-fills the accumulated frame instead of the day's
RECURSIVE ExtractLoopFillsAcross(_, _, _)
ExtractLoopFillsAcross(days, i, acc) ==
  IF i > Len(days) THEN Return(acc)
  ELSE LET day == ExtractDay(days[i])
       IN IF day.status # "ok" THEN day
          ELSE ExtractLoopFillsAcross(days, i + 1, Ffill(ConcatAxis0(acc, day.df)))

\* lines 86-114: the loop; an exception leaves it at once
RECURSIVE ExtractLoop(_, _, _)
ExtractLoop(days, i, acc) ==
  IF i > Len(days) THEN Return(acc)
  ELSE LET day == ExtractDay(days[i])
       IN IF day.status # "ok" THEN day
          ELSE ExtractLoop(days, i + 1, ConcatAxis0(acc, day.df))

ExtractData(days) == ExtractLoop(days, 1, NoFrame)

-----------------------------------------------------------------------------
(* The provider: the day records a response may hold *)

\* the decimal digits of n, as the provider writes its time strings
RECURSIVE Digits(_)
Digits(n) == IF n < 10 THEN <<n>> ELSE Append(Digits(n \div 10), n % 10)

\* a record without one of its keys
Without(r, key) == [k \in (DOMAIN r) \ {key} |-> r[k]]

\* a record with one key set
With(r, key, value) == [k \in (DOMAIN r) \cup {key} |-> IF k = key THEN value ELSE r[k]]

AstronomyRecord(date) ==
  [moon_illumination |-> <<date[3] + 40>>, moon_phase |-> <<date[3] % 4>>,
   moonrise |-> <<date[3] + 500>>, moonset |-> <<date[3] + 1700>>,
   sunrise |-> <<date[3] + 600>>, sunset |-> <<date[3] + 1800>>]

\* the k-th hourly sub-record of a day sampled every tp hours
HourlyRecord(date, k, tp) ==
  LET v == date[3] * 10 + k
  IN [time |-> Digits((k - 1) * tp * 100),
      tempC |-> <<v>>, windspeedKmph |-> <<v + 100>>, winddirDegree |-> <<v + 200>>,
      precipMM |-> <<v + 300>>, humidity |-> <<v + 400>>, visibility |-> <<v + 500>>,
      pressure |-> <<v + 600>>, cloudcover |-> <<v + 700>>, HeatIndexC |-> <<v + 800>>,
      DewPointC |-> <<v + 900>>, WindChillC |-> <<v + 1000>>,
      WindGustKmph |-> <<v + 1100>>, FeelsLikeC |-> <<v + 1200>>,
      uvIndex |-> <<v + 1300>>]

\* a complete day record with n hourly sub-records
FullDay(date, n, tp) ==
  [date |-> date,
   astronomy |-> << AstronomyRecord(date) >>,
   maxtempC |-> <<date[3] + 20>>, mintempC |-> <<date[3]>>,
   totalSnow_cm |-> <<date[3] % 3>>, sunHour |-> <<date[3] % 7>>,
   uvIndex |-> <<date[3] % 5>>,
   hourly |-> [k \in 1..n |-> HourlyRecord(date, k, tp)]]

\* the day record with tempC null in the hourly sub-records whose position is in gaps
NullTemp(day, gaps) ==
  With(day, "hourly",
       [k \in DOMAIN day.hourly |->
         IF k \in gaps THEN With(day.hourly[k], "tempC", NaN) ELSE day.hourly[k]])

\* the day record with key absent from the hourly sub-records whose position is in at
HourlyWithout(day, key, at) ==
  With(day, "hourly",
       [k \in DOMAIN day.hourly |->
         IF k \in at THEN Without(day.hourly[k], key) ELSE day.hourly[k]])

\* the day records of the flattening specification for one date: any number
\* of hours up to MaxHours with tempC null in any of them, and a full day with
\* one day-level key absent, or an hourly key absent or null
DayKeys == {"date", "astronomy", "hourly", "maxtempC", "mintempC", "totalSnow_cm",
            "sunHour", "uvIndex"}

DayVariants(date) ==
  LET full == FullDay(date, MaxHours, 1)
  IN {NullTemp(FullDay(date, n, 1), gaps) : <<n, gaps>> \in
        {ng \in (0..MaxHours) \X SUBSET (1..MaxHours) : ng[2] \subseteq 1..ng[1]}}
     \cup {Without(full, key) : key \in DayKeys}
     \cup {HourlyWithout(full, "tempC", {MaxHours}),
           HourlyWithout(full, "tempC", 1..MaxHours),
           HourlyWithout(full, "time", {1}),
           HourlyWithout(full, "time", {MaxHours}),
           HourlyWithout(full, "uvIndex", 1..MaxHours),
           Without(HourlyWithout(full, "uvIndex", 1..MaxHours), "uvIndex")}

\* the date of the i-th day record of a generated response
DayDate(i) == <<2020, 2, 27 + i>>

\* the number of hourly sub-records the provider sends for a day sampled
\* every tp hours, capped by MaxHours
HoursSent(tp) == IF 24 \div tp < MaxHours THEN 24 \div tp ELSE MaxHours

\* the first n days from a midnight Timestamp that are not after last
RECURSIVE DaysFrom(_, _, _, _)
DaysFrom(ts, last, n, tp) ==
  IF n = 0 \/ TsLess(last, ts) THEN <<>>
  ELSE << FullDay(Str10(ts), HoursSent(tp), tp) >> \o DaysFrom(NextDay(ts), last, n - 1, tp)

\* what the provider may answer to a request for [date, enddate] every tp
\* hours: a transport failure, a document without data.weather, the first
\* days of the range, or a defective list of day records
Responses(date, enddate, tp) ==
  LET first == FullDay(date, HoursSent(tp), tp)
      second == FullDay(Str10(NextDay(Strptime(date))), HoursSent(tp), tp)
  IN {[status |-> "URLError", weather |-> <<>>], [status |-> "KeyError", weather |-> <<>>]}
     \cup {[status |-> "ok", weather |-> w] : w \in
             {DaysFrom(Strptime(date), Strptime(enddate), n, tp) : n \in 0..MaxDays}
             \cup {<<first, first>>, <<second, first>>,
                   <<Without(first, "hourly")>>, <<first, Without(second, "hourly")>>,
                   <<Without(first, "date")>>, <<first, Without(second, "date")>>,
                   <<Without(first, "maxtempC")>>}}

-----------------------------------------------------------------------------
(* HistoricalLocationWeather: the constructor and retrieve_hist_data *)

\* retrieve_hist_data line 181: set_index('date_time', drop = True)
SetIndex(df) ==
  LET rest == SelectSeq([j \in DOMAIN df.cols |-> j], LAMBDA j : df.cols[j] # "date_time")
  IN [index |-> Col(df, "date_time"),
      cols |-> TakeCols(df, rest).cols,
      rows |-> TakeCols(df, rest).rows]

\* a frequency check that admits every number of hours up to 12
AnyFrequencyUpTo12 == 1..12

ValidFrequencies == {1, 3, 6, 12}

\* __init__, lines 52-70, on well-typed arguments
Construct ==
  /\ pc = "new"
  /\ IF \/ ~ValidDateString(args.end_date)
        \/ ~ValidDateString(args.start_date)
        \/ TsKey(Strptime(args.start_date)) >= TsKey(Strptime(args.end_date))
        \/ args.frequency \notin ValidFrequencies
     THEN /\ pc' = "raised"
          /\ error' = "ValueError"
          /\ self' = self
     ELSE /\ pc' = "ready"
          /\ error' = error
          /\ self' = [api_key |-> args.api_key, city |-> args.city,
                      start_date |-> args.start_date, end_date |-> args.end_date,
                      start_date_datetime |-> Strptime(args.start_date),
                      end_date_datetime |-> Strptime(args.end_date),
                      frequency |-> args.frequency, verbose |-> args.verbose,
                      csv_directory |-> args.csv_directory]
  /\ UNCHANGED <<args, answers, list_month_begin, list_month_end, m, historical_data, fetches,
                 result, csv_file, dataset, monthly_data, attr>>

\* retrieve_hist_data lines 178-180 and _retrieve_this_city lines 131-141
RetrieveBegin ==
  /\ pc = "ready"
  /\ list_month_begin' = ListMonthBegin(self.start_date, self.end_date)
  /\ list_month_end' = ListMonthEnd(self.start_date_datetime, self.end_date_datetime,
                                    self.end_date)
  /\ m' = 0
  /\ historical_data' = NoFrame
  /\ pc' = "loop"
  /\ UNCHANGED <<args, answers, self, fetches, result, csv_file, error, dataset, monthly_data, attr>>

\* a request that always asks up to the end of the whole range
RequestWholeRange(i) ==
  [city |-> self.city, date |-> Str10(list_month_begin[i]),
   enddate |-> self.end_date, tp |-> self.frequency]

\* the request of iteration i (1-based), lines 143-147
Request(i) ==
  [city |-> self.city, date |-> Str10(list_month_begin[i]),
   enddate |-> Str10(list_month_end[i]), tp |-> self.frequency]

\* lines 152-154: the month's frame, tagged with the city, under the data so far
Accumulate(acc, month, city) ==
  ConcatAxis0(acc, SetCol(month, "city", [i \in DOMAIN month.rows |-> city]))

\* one iteration of the loop of _retrieve_this_city, lines 142-158: the fetch
\* and what follows it, up to the next fetch
FetchStep ==
  /\ pc = "loop"
  /\ m < Len(list_month_begin)
  /\ IF m + 1 > Len(list_month_end)
     THEN /\ pc' = "failed"
          /\ error' = "KeyError"
          /\ UNCHANGED <<fetches, answers, historical_data, m>>
     ELSE \E resp \in Responses(Request(m + 1).date, Request(m + 1).enddate,
                                Request(m + 1).tp) :
            /\ fetches' = Append(fetches, Request(m + 1))
            /\ answers' = Append(answers, resp)
            /\ LET data_this_month == ExtractData(resp.weather)
               IN IF resp.status # "ok"
                  THEN /\ pc' = "failed"
                       /\ error' = resp.status
                       /\ UNCHANGED <<historical_data, m>>
                  ELSE IF data_this_month.status # "ok"
                  THEN /\ pc' = "failed"
                       /\ error' = data_this_month.status
                       /\ UNCHANGED <<historical_data, m>>
                  ELSE /\ historical_data' =
                            Accumulate(historical_data, data_this_month.df, self.city)
                       /\ m' = m + 1
                       /\ UNCHANGED <<pc, error>>
  /\ UNCHANGED <<args, self, list_month_begin, list_month_end, result, csv_file,
                 dataset, monthly_data, attr>>

\* _retrieve_this_city line 160 and retrieve_hist_data lines 181-188
RetrieveFinish ==
  /\ pc = "loop"
  /\ m = Len(list_month_begin)
  /\ IF ~HasCol(historical_data, "date_time")
     THEN /\ pc' = "failed"
          /\ error' = "KeyError"
          /\ UNCHANGED <<result, csv_file>>
     ELSE /\ pc' = "returned"
          /\ result' = << SetIndex(historical_data) >>
          /\ csv_file' = IF self.csv_directory # None
                         THEN << [directory |-> self.csv_directory, city |-> self.city,
                                  table |-> SetIndex(historical_data)] >>
                         ELSE <<>>
          /\ error' = error
  /\ UNCHANGED <<args, answers, self, list_month_begin, list_month_end, m, historical_data,
                 fetches, dataset, monthly_data, attr>>

-----------------------------------------------------------------------------
(* _extract_data applied to a generated list of day records *)

Extract ==
  /\ pc = "extract"
  /\ monthly_data' = ExtractData(dataset)
  /\ pc' = "extracted"
  /\ UNCHANGED <<args, answers, self, list_month_begin, list_month_end, m, historical_data,
                 fetches, result, csv_file, error, dataset, attr>>

-----------------------------------------------------------------------------
(* DetermineListOfAttributes *)

ApiKeyLength == 31

Contains(str, ch) == \E i \in DOMAIN str : str[i] = ch

\* __init__, lines 24-41, on well-typed arguments
AttrConstruct ==
  /\ attr.pc = "new"
  /\ attr' =
       IF Len(attr.api_key) # ApiKeyLength
       THEN [attr EXCEPT !.pc = "raised", !.error = "ValueError"]
       ELSE IF ~Contains(attr.date, "-") \/ Contains(attr.date, "/")
       THEN [attr EXCEPT !.pc = "raised", !.error = "KeyError"]
       ELSE [attr EXCEPT !.pc = "ready"]
  /\ UNCHANGED <<args, answers, pc, self, list_month_begin, list_month_end, m, historical_data,
                 fetches, result, csv_file, error, dataset, monthly_data>>

\* lines 59-65: the keys of the second day record's astronomy and hourly frames
AttributeKeys(weather) ==
  DataFrameFromDicts(weather[2].astronomy).cols \o DataFrameFromDicts(weather[2].hourly).cols

\* retrieve_list_of_options, lines 48-70: everything from the fetch to the
\* return sits inside the first `if self.verbose:`
RetrieveListOfOptions(verbose, response) ==
  IF verbose
  THEN IF response.status # "ok"
       THEN [pc |-> "failed", error |-> response.status, fetched |-> 1,
             returned |-> "nothing", attribute_list |-> <<>>]
       ELSE IF \/ Len(response.weather) < 2
               \/ "astronomy" \notin DOMAIN response.weather[2]
               \/ "hourly" \notin DOMAIN response.weather[2]
       THEN [pc |-> "failed",
             error |-> IF Len(response.weather) < 2 THEN "IndexError" ELSE "KeyError",
             fetched |-> 1, returned |-> "nothing", attribute_list |-> <<>>]
       ELSE [pc |-> "returned", error |-> "none", fetched |-> 1, returned |-> "list",
             attribute_list |-> AttributeKeys(response.weather)]
  ELSE [pc |-> "returned", error |-> "none", fetched |-> 0, returned |-> "None",
        attribute_list |-> <<>>]

AttrRetrieve ==
  /\ attr.pc = "ready"
  /\ LET out == RetrieveListOfOptions(attr.verbose, attr.response)
     IN attr' = [attr EXCEPT !.pc = out.pc, !.error = out.error, !.fetched = out.fetched,
                             !.returned = out.returned,
                             !.attribute_list = out.attribute_list]
  /\ UNCHANGED <<args, answers, pc, self, list_month_begin, list_month_end, m, historical_data,
                 fetches, result, csv_file, error, dataset, monthly_data>>

-----------------------------------------------------------------------------
(* Inputs and specifications *)

NoArgs == [api_key |-> "key", city |-> "London", start_date |-> <<2020, 1, 1>>,
           end_date |-> <<2020, 1, 2>>, frequency |-> 1, verbose |-> FALSE,
           csv_directory |-> None]

NoAttr == [pc |-> "idle", api_key |-> <<>>, city_name |-> "London", date |-> <<>>,
           verbose |-> FALSE, response |-> [status |-> "URLError", weather |-> <<>>],
           error |-> "none", fetched |-> 0, returned |-> "nothing",
           attribute_list |-> <<>>]

Idle ==
  /\ self = <<>>
  /\ list_month_begin = <<>>
  /\ list_month_end = <<>>
  /\ m = 0
  /\ historical_data = NoFrame
  /\ fetches = <<>>
  /\ answers = <<>>
  /\ result = <<>>
  /\ csv_file = <<>>
  /\ error = "none"
  /\ monthly_data = Raise("none")

\* the requests of the retrieval specification
Requests ==
  [api_key : {"key"}, city : {"London"},
   start_date : {<<2020, 1, 1>>, <<2020, 1, 31>>, <<2020, 3, 15>>, <<2020, 2, 30>>},
   end_date : {<<2020, 1, 31>>, <<2020, 2, 1>>, <<2020, 3, 15>>},
   frequency : {0, 1, 2, 3, 6, 12, 24},
   verbose : BOOLEAN,
   csv_directory : {None, "out"}]

Init ==
  /\ args \in Requests
  /\ pc = "new"
  /\ Idle
  /\ dataset = <<>>
  /\ attr = NoAttr

Next == Construct \/ RetrieveBegin \/ FetchStep \/ RetrieveFinish

Spec == Init /\ [][Next]_vars

\* the k-th month from FirstMonth
MonthAt(k) ==
  LET z == (FirstMonth[2] - 1) + k
  IN <<FirstMonth[1] + (z \div 12), (z % 12) + 1>>

\* every date string of the NumMonths months from FirstMonth, day fields
\* that name no calendar day included
InputDates == {<<MonthAt(k)[1], MonthAt(k)[2], d>> : k \in 0..(NumMonths - 1), d \in 1..31}

InitPartition ==
  /\ args \in [api_key : {"key"}, city : {"London"}, start_date : InputDates,
               end_date : InputDates, frequency : {3}, verbose : {FALSE},
               csv_directory : {None}]
  /\ pc = "new"
  /\ Idle
  /\ dataset = <<>>
  /\ attr = NoAttr

NextPartition == Construct \/ RetrieveBegin

SpecPartition == InitPartition /\ [][NextPartition]_vars

\* the lists of at most MaxDays day records, the i-th dated DayDate(i)
RECURSIVE Datasets(_)
Datasets(n) ==
  IF n = 0 THEN {<<>>}
  ELSE Datasets(n - 1)
       \cup {Append(ds, d) : ds \in {x \in Datasets(n - 1) : Len(x) = n - 1},
                             d \in DayVariants(DayDate(n))}

InitFlatten ==
  /\ args = NoArgs
  /\ pc = "extract"
  /\ Idle
  /\ dataset \in Datasets(MaxDays)
  /\ attr = NoAttr

NextFlatten == Extract

SpecFlatten == InitFlatten /\ [][NextFlatten]_vars

\* the date strings given to DetermineListOfAttributes
AttrDates ==
  {<<"2", "0", "1", "1", "-", "0", "1", "-", "0", "5">>,
   <<"2", "0", "1", "1", "/", "0", "1", "/", "0", "5">>,
   <<"2", "0", "1", "1", "-", "0", "1", "/", "0", "5">>,
   <<"2", "0", "1", "1", "0", "1", "0", "5">>}

\* what the provider may answer to DetermineListOfAttributes: a transport
\* failure, or a list of no, one or two day records
AttrResponses ==
  {[status |-> "URLError", weather |-> <<>>]}
  \cup {[status |-> "ok", weather |-> w] : w \in
          {<<>>, << FullDay(DayDate(1), MaxHours, 1) >>}
          \cup {<< FullDay(DayDate(1), MaxHours, 1), d >> : d \in DayVariants(DayDate(2))}}

InitAttr ==
  /\ args = NoArgs
  /\ pc = "idle"
  /\ Idle
  /\ dataset = <<>>
  /\ attr \in [pc : {"new"},
               api_key : {[i \in 1..n |-> "k"] : n \in (ApiKeyLength - 1)..(ApiKeyLength + 1)},
               city_name : {"London"}, date : AttrDates, verbose : BOOLEAN,
               response : AttrResponses, error : {"none"}, fetched : {0},
               returned : {"nothing"}, attribute_list : {<<>>}]

NextAttr == AttrConstruct \/ AttrRetrieve

SpecAttr == InitAttr /\ [][NextAttr]_vars

-----------------------------------------------------------------------------
(* Properties *)

DateKey(d) == (d[1] * 100 + d[2]) * 100 + d[3]

\* the number of the calendar month of a Timestamp
MonthIndex(ts) == ts[1] * 12 + ts[2]

\* the cell of row r of df in its first column called c
Cell(df, r, c) == df.rows[r][ColPos(df, c)]

\* the rows that the day records before the i-th contribute, one per hourly sub-record
RECURSIVE RowsBefore(_, _)
RowsBefore(days, i) ==
  IF i <= 1 THEN 0 ELSE RowsBefore(days, i - 1) + Len(days[i - 1].hourly)

HourlyFields ==
  {"DewPointC", "FeelsLikeC", "HeatIndexC", "WindChillC", "WindGustKmph", "cloudcover",
   "humidity", "precipMM", "pressure", "tempC", "visibility", "winddirDegree",
   "windspeedKmph"}

DailyFields == {"maxtempC", "mintempC", "totalSnow_cm", "sunHour", "uvIndex"}

AstronomyFields == {"moon_illumination", "moonrise", "moonset", "sunrise", "sunset"}

\* the value of field c in hourly sub-record h, missing when absent or null
Given(h, c) == IF c \in DOMAIN h THEN h[c] ELSE NaN

\* C1: for every start < end the sub-intervals pair every start with an end
\* (equal lengths), are ascending, contiguous (each starts the day after the
\* previous one ends) and non-overlapping, each has start <= end, the first
\* starts at start, the last ends at end, and a day lies in a sub-interval
\* (and then in exactly one) exactly when it lies in [start, end].
C1_PartitionCoversRange ==
  pc = "loop" =>
    LET B == list_month_begin
        E == list_month_end
        start == Strptime(args.start_date)
        end == Strptime(args.end_date)
    IN /\ Len(B) = Len(E)
       /\ B[1] = start
       /\ E[Len(E)] = end
       /\ \A i \in DOMAIN B : TsLeq(B[i], E[i])
       /\ \A i \in 1..(Len(B) - 1) : B[i + 1] = NextDay(E[i])
       /\ \A d \in InputDates :
            ValidDateString(d) =>
              LET in == {i \in DOMAIN B : TsLeq(B[i], Strptime(d)) /\ TsLeq(Strptime(d), E[i])}
              IN /\ Cardinality(in) <= 1
                 /\ (in # {}) <=> (TsLeq(start, Strptime(d)) /\ TsLeq(Strptime(d), end))

\* a range of at least three sub-intervals that starts and ends inside a month
C1_Witness ==
  /\ pc = "loop"
  /\ Len(list_month_begin) >= 3
  /\ args.start_date[3] > 1
  /\ args.end_date[3] < DaysInMonth(args.end_date[1], args.end_date[2])

\* C2: the fetches are issued one per sub-interval, one per completed
\* iteration, in ascending order, the i-th with the i-th sub-interval's start
\* and end and the requested frequency; none before the loop; a call that
\* returns has issued exactly one per sub-interval; and London, 2020-01-01 to
\* 2020-03-15, every 3 hours, issues exactly the three fetches of its months.
C2_OneFetchPerSubInterval ==
  /\ pc \in {"new", "raised", "ready"} => fetches = <<>>
  /\ pc \in {"loop", "returned", "failed"} =>
       /\ Len(fetches) <= Len(list_month_begin)
       /\ \A i \in DOMAIN fetches :
            fetches[i] = [city |-> args.city,
                          date |-> <<list_month_begin[i][1], list_month_begin[i][2],
                                     list_month_begin[i][3]>>,
                          enddate |-> <<list_month_end[i][1], list_month_end[i][2],
                                        list_month_end[i][3]>>,
                          tp |-> args.frequency]
       /\ \A i \in 1..(Len(fetches) - 1) :
            DateKey(fetches[i].enddate) < DateKey(fetches[i + 1].date)
       /\ pc = "loop" => Len(fetches) = m
       /\ pc = "returned" => Len(fetches) = Len(list_month_begin)
  /\ ( /\ pc = "returned"
       /\ args.city = "London"
       /\ args.start_date = <<2020, 1, 1>>
       /\ args.end_date = <<2020, 3, 15>>
       /\ args.frequency = 3 )
     => fetches =
          << [city |-> "London", date |-> <<2020, 1, 1>>, enddate |-> <<2020, 1, 31>>, tp |-> 3],
             [city |-> "London", date |-> <<2020, 2, 1>>, enddate |-> <<2020, 2, 29>>, tp |-> 3],
             [city |-> "London", date |-> <<2020, 3, 1>>, enddate |-> <<2020, 3, 15>>, tp |-> 3] >>

\* the London call has returned after its three fetches
C2_Witness ==
  /\ pc = "returned"
  /\ args.city = "London"
  /\ args.start_date = <<2020, 1, 1>>
  /\ args.end_date = <<2020, 3, 15>>
  /\ args.frequency = 3
  /\ Len(fetches) = 3

\* C3: every table retrieve_hist_data returns is strictly ascending by
\* timestamp, so without duplicate timestamps.
C3_ReturnedTableStrictlyAscending ==
  pc = "returned" =>
    \A i \in 1..(Len(result[1].index) - 1) :
      TsLess(result[1].index[i], result[1].index[i + 1])

\* a day record without its hourly sub-records or without its date
BadDay(d) == "hourly" \notin DOMAIN d \/ "date" \notin DOMAIN d

BadAnswer(a) == a.status # "ok" \/ \E j \in DOMAIN a.weather : BadDay(a.weather[j])

\* C4: once a fetch has failed, or has answered with a day record that lacks
\* hourly or date, the call has failed: no table is returned, no CSV file is
\* written, and that fetch is the last one issued (no further sub-interval,
\* no retry).
C4_FailureAbortsRetrieval ==
  \A i \in DOMAIN answers :
    BadAnswer(answers[i]) =>
      /\ pc = "failed"
      /\ result = <<>>
      /\ csv_file = <<>>
      /\ Len(fetches) = i
      /\ Len(answers) = i

\* a later sub-interval's response holds a day without date, after rows of
\* an earlier sub-interval were accumulated
C4_Witness ==
  /\ pc = "failed"
  /\ Len(answers) >= 2
  /\ answers[Len(answers)].status = "ok"
  /\ \E j \in DOMAIN answers[Len(answers)].weather :
       "date" \notin DOMAIN answers[Len(answers)].weather[j]
  /\ Len(historical_data.rows) > 0
  /\ self.csv_directory # None

\* a complete day record but for one or more of the five daily scalar fields
LacksOnlyDailyScalars(d, i) ==
  LET full == FullDay(DayDate(i), MaxHours, 1)
  IN /\ DOMAIN d \subseteq DOMAIN full
     /\ (DOMAIN full) \ (DOMAIN d) # {}
     /\ (DOMAIN full) \ (DOMAIN d) \subseteq DailyFields
     /\ \A k \in DOMAIN d : d[k] = full[k]

\* C5: a list of day records that each have date and hourly (and are
\* otherwise complete) but lack daily scalar fields is flattened without an
\* error, one row per hourly sub-record.
C5_MissingDailyScalarTolerated ==
  ( /\ pc = "extracted"
    /\ Len(dataset) > 0
    /\ \A i \in DOMAIN dataset : LacksOnlyDailyScalars(dataset[i], i) )
  => /\ monthly_data.status = "ok"
     /\ Len(monthly_data.df.rows) = Len(dataset) * MaxHours

\* C6: a request whose frequency is outside {1, 3, 6, 12}, or whose start
\* date is not before its end date, never gets past the constructor: it is
\* rejected with a ValueError, no fetch is ever issued and nothing is returned.
C6_InvalidInputRejectedBeforeFetch ==
  ( \/ args.frequency \notin {1, 3, 6, 12}
    \/ DateKey(args.start_date) >= DateKey(args.end_date) )
  => /\ pc \in {"new", "raised"}
     /\ pc = "raised" => error = "ValueError"
     /\ fetches = <<>>
     /\ result = <<>>
     /\ csv_file = <<>>

\* frequency 2 with well-ordered dates has been rejected
C6_Witness ==
  /\ pc = "raised"
  /\ args.frequency = 2
  /\ ValidDateString(args.start_date)
  /\ ValidDateString(args.end_date)
  /\ DateKey(args.start_date) < DateKey(args.end_date)

\* C7: when the flattening succeeds, every day record with N hourly
\* sub-records yields exactly N rows in hourly order: row k carries the values
\* the k-th sub-record gives for the hourly fields, and every row of the day
\* carries the day's scalar values, the day's astronomy values and the
\* day's date.
C7_OneRowPerHourlyRecord ==
  (pc = "extracted" /\ monthly_data.status = "ok") =>
    LET out == monthly_data.df
    IN /\ Len(out.rows) = RowsBefore(dataset, Len(dataset) + 1)
       /\ \A i \in DOMAIN dataset : \A k \in DOMAIN dataset[i].hourly :
            LET r == RowsBefore(dataset, i) + k
                d == dataset[i]
            IN /\ \A c \in HourlyFields :
                    Given(d.hourly[k], c) # NaN => Cell(out, r, c) = d.hourly[k][c]
               /\ \A c \in DailyFields :
                    c \in DOMAIN d => Cell(out, r, c) = d[c]
               /\ \A c \in AstronomyFields : Cell(out, r, c) = d.astronomy[1][c]
               /\ <<Cell(out, r, "date_time")[1], Cell(out, r, "date_time")[2],
                    Cell(out, r, "date_time")[3]>> = d.date

\* one complete day record of MaxHours hourly sub-records has been flattened
C7_Witness ==
  /\ pc = "extracted"
  /\ monthly_data.status = "ok"
  /\ Len(dataset) = 1
  /\ dataset[1] = FullDay(DayDate(1), MaxHours, 1)
  /\ Len(monthly_data.df.rows) = MaxHours
  /\ MaxHours >= 2

\* C8: whenever the instance was constructed and the provider's answer holds
\* a second day record with astronomy and hourly, retrieve_list_of_options
\* has fetched once and returned the astronomy keys followed by the hourly
\* keys, whatever verbose is.
C8_AttributeListIndependentOfVerbose ==
  ( /\ attr.pc = "returned"
    /\ attr.response.status = "ok"
    /\ Len(attr.response.weather) >= 2
    /\ {"astronomy", "hourly"} \subseteq DOMAIN attr.response.weather[2] )
  => /\ attr.returned = "list"
     /\ attr.fetched = 1
     /\ attr.attribute_list =
       KeysByFirstAppearance(attr.response.weather[2].astronomy, 1, <<>>)
       \o KeysByFirstAppearance(attr.response.weather[2].hourly, 1, <<>>)

\* C9: every sub-interval lies within one calendar month, each but the first
\* starts on the first day of a month, each but the last ends on the last
\* day of a month, there is exactly one per calendar month the range touches,
\* and a range within one month gives the one sub-interval [start, end].
C9_SubIntervalsAreCalendarMonths ==
  pc = "loop" =>
    LET B == list_month_begin
        E == list_month_end
        start == Strptime(args.start_date)
        end == Strptime(args.end_date)
    IN /\ Len(B) = Len(E)
       /\ Len(B) = MonthIndex(end) - MonthIndex(start) + 1
       /\ \A i \in DOMAIN B :
            /\ MonthIndex(B[i]) = MonthIndex(E[i])
            /\ MonthIndex(B[i]) = MonthIndex(start) + i - 1
            /\ i > 1 => B[i][3] = 1
            /\ i < Len(B) => E[i][3] = DaysInMonth(E[i][1], E[i][2])
       /\ MonthIndex(start) = MonthIndex(end) => (B = <<start>> /\ E = <<end>>)

\* a range inside one month, not starting on its first day, was partitioned
C9_Witness ==
  /\ pc = "loop"
  /\ MonthIndex(Strptime(args.start_date)) = MonthIndex(Strptime(args.end_date))
  /\ args.start_date[3] > 1
  /\ Len(list_month_begin) = 1

\* the value forward-fill must leave in row k of a day for hourly field c:
\* that of the nearest sub-record at or above k of the same day that gives
\* it, missing when there is none
FilledWithinDay(d, k, c) ==
  LET having == {j \in 1..k : Given(d.hourly[j], c) # NaN}
  IN IF having = {} THEN NaN
     ELSE d.hourly[CHOOSE j \in having : \A j2 \in having : j2 <= j][c]

\* C10: when the flattening succeeds, every hourly field of every row holds
\* the value of the nearest row at or above it of the same day record that
\* has one, and is missing when no such row exists, whatever the day records
\* before it hold.
C10_ForwardFillPerColumnPerDay ==
  (pc = "extracted" /\ monthly_data.status = "ok") =>
    /\ Len(monthly_data.df.rows) = RowsBefore(dataset, Len(dataset) + 1)
    /\ \A i \in DOMAIN dataset : \A k \in DOMAIN dataset[i].hourly :
         \A c \in HourlyFields :
           Cell(monthly_data.df, RowsBefore(dataset, i) + k, c)
             = FilledWithinDay(dataset[i], k, c)

\* the first day's last row was filled from the row above it, and the second
\* day's first row stays missing although the first day's rows have a value
C10_Witness ==
  /\ pc = "extracted"
  /\ monthly_data.status = "ok"
  /\ Len(dataset) >= 2
  /\ Len(dataset[1].hourly) >= 2
  /\ Given(dataset[1].hourly[1], "tempC") # NaN
  /\ Given(dataset[1].hourly[Len(dataset[1].hourly)], "tempC") = NaN
  /\ Cell(monthly_data.df, Len(dataset[1].hourly), "tempC") # NaN
  /\ Len(dataset[2].hourly) >= 1
  /\ Given(dataset[2].hourly[1], "tempC") = NaN
  /\ Cell(monthly_data.df, Len(dataset[1].hourly) + 1, "tempC") = NaN

====
